---- MODULE Spec2Model ----
(***************************************************************************)
(* Model of the multi-auction socket server (the HEAD side of the merge in *)
(* src/unnamed/part_000): the in-memory room registry, the socket.io       *)
(* handlers that mutate one room's live state, and the asynchronous        *)
(* Player/Team writes issued by sell_player and unsell_player.             *)
(*                                                                         *)
(* Inputs are typed as the data model types them: amounts and base prices  *)
(* are non-negative integers, teamId/playerId payloads are identifiers     *)
(* (never null).  Null marks an absent reference in the room state.        *)
(***************************************************************************)
EXTENDS Integers, Sequences, FiniteSets, TLC

\* ---------------------------------------------------------------- bounds
MaxAmount == 2
MaxActions == 4
MaxCommits == 2

\* ---------------------------------------------------------------- domains
\* The auction ids the registry may hold; Next addresses "a1".
AuctionIds == {"a1", "a2"}
TeamIds == {"t1", "t2"}
PlayerIds == {"p1", "p2"}
Sockets == {"s1"}
Amounts == 1..MaxAmount
\* Base prices may be zero; a bid of zero never differs from no bid.
BasePrices == 0..MaxAmount
Null == "null"

VARIABLES auctionRooms, joined, commits, playersDB, teamsDB,
          emitted, last, round, nActions, process, track

vars == <<auctionRooms, joined, commits, playersDB, teamsDB,
          emitted, last, round, nActions, process, track>>

\* ---------------------------------------------------------------- room state
\* The record getRoomState stores for an auction id it has not seen.
Baseline ==
    [currentBid |-> 0, leadingTeamId |-> Null, currentPlayerId |-> Null,
     status |-> "IDLE", bidHistory |-> <<>>]

\* getRoomState storing a new record on every call.
getRoomState_Fresh(rooms, auctionId) ==
    [a \in DOMAIN rooms \cup {auctionId} |->
        IF a = auctionId THEN Baseline ELSE rooms[a]]

\* The registry after getRoomState(auctionId): the room is created on first use.
getRoomState(rooms, auctionId) ==
    IF auctionId \in DOMAIN rooms THEN rooms
    ELSE [a \in DOMAIN rooms \cup {auctionId} |->
            IF a = auctionId THEN Baseline ELSE rooms[a]]

\* One state object shared by every auction id.
SetRoom_Shared(rooms, auctionId, state) ==
    [a \in DOMAIN rooms \cup {auctionId} |-> state]

\* The registry with one room's state replaced.
SetRoom(rooms, auctionId, state) ==
    [a \in DOMAIN rooms \cup {auctionId} |->
        IF a = auctionId THEN state ELSE rooms[a]]

\* ---------------------------------------------------------------- handlers' effect on one room
\* start_player without the history reset.
StartPlayerState_KeepHistory(state, playerId, basePrice) ==
    [currentBid |-> basePrice, leadingTeamId |-> Null,
     currentPlayerId |-> playerId, status |-> "ACTIVE",
     bidHistory |-> state.bidHistory]

\* start_player without the leader reset.
StartPlayerState_KeepLeader(state, playerId, basePrice) ==
    [currentBid |-> basePrice, leadingTeamId |-> state.leadingTeamId,
     currentPlayerId |-> playerId, status |-> "ACTIVE", bidHistory |-> <<>>]

StartPlayerState(state, playerId, basePrice) ==
    [currentBid |-> basePrice, leadingTeamId |-> Null,
     currentPlayerId |-> playerId, status |-> "ACTIVE", bidHistory |-> <<>>]

\* place_bid with the strict comparison dropped: an equal bid always passes.
BidAccepted_AllowEqual(state, amount) ==
    ~(amount < state.currentBid)

\* place_bid with its two comparisons swapped between the branches.
BidAccepted_Swapped(state, amount) ==
    IF state.leadingTeamId = Null
    THEN ~(amount <= state.currentBid)
    ELSE ~(amount < state.currentBid)

\* place_bid without the floor on the opening bid.
BidAccepted_NoFloor(state, amount) ==
    state.leadingTeamId = Null \/ ~(amount <= state.currentBid)

\* The two early returns of place_bid, negated.
BidAccepted(state, amount) ==
    IF state.leadingTeamId = Null
    THEN ~(amount < state.currentBid)
    ELSE ~(amount <= state.currentBid)

PlaceBidState(state, teamId, amount) ==
    [state EXCEPT
        !.bidHistory = Append(state.bidHistory,
                              [bid |-> state.currentBid, leader |-> state.leadingTeamId]),
        !.currentBid = amount,
        !.leadingTeamId = teamId]

UndoAccepted(state) == Len(state.bidHistory) > 0

\* undo_bid reading the top frame without popping it.
UndoBidState_NoPop(state) ==
    LET prev == state.bidHistory[Len(state.bidHistory)]
    IN [state EXCEPT !.currentBid = prev.bid, !.leadingTeamId = prev.leader]

UndoBidState(state) ==
    LET n == Len(state.bidHistory)
        prev == state.bidHistory[n]
    IN [state EXCEPT
            !.bidHistory = SubSeq(state.bidHistory, 1, n - 1),
            !.currentBid = prev.bid,
            !.leadingTeamId = prev.leader]

TogglePauseState(state) ==
    [state EXCEPT !.status = IF state.status = "PAUSED" THEN "ACTIVE" ELSE "PAUSED"]

\* sell_player guarding on the current player only.
SellAccepted_PlayerOnly(state) ==
    state.currentPlayerId # Null

SellAccepted(state) ==
    state.currentPlayerId # Null /\ state.leadingTeamId # Null

\* sell_player without the history reset.
SellState_KeepHistory(state) ==
    [state EXCEPT !.status = "SOLD"]

SellState(state) ==
    [state EXCEPT !.status = "SOLD", !.bidHistory = <<>>]

UnsellAccepted(state) == state.currentPlayerId # Null

UnsellState(state) == [state EXCEPT !.status = "UNSOLD"]

ResetRoundState(state) ==
    [state EXCEPT !.currentBid = 0, !.leadingTeamId = Null,
                  !.currentPlayerId = Null, !.status = "IDLE"]

\* ---------------------------------------------------------------- persistence
\* The values sell_player destructures from the room before it mutates it.
SellArgs(state) ==
    [playerId |-> state.currentPlayerId, teamId |-> state.leadingTeamId,
     amount |-> state.currentBid]

\* The argument unsell_player evaluates when it builds its query.
UnsellArgs(state) ==
    [playerId |-> state.currentPlayerId, teamId |-> Null, amount |-> 0]

\* One issued commit: the handler's captured arguments, the state of each
\* write, whether its data_update went out and how a failure surfaced.
\* standing is the room's (player, leader, bid) at the moment of the action.
NewCommit(auctionId, kind, args, state) ==
    [auctionId |-> auctionId, kind |-> kind, args |-> args,
     standing |-> [playerId |-> state.currentPlayerId,
                   teamId |-> state.leadingTeamId,
                   amount |-> state.currentBid],
     playerWrite |-> "pending",
     teamWrite |-> IF kind = "sell" THEN "pending" ELSE "none",
     dataUpdate |-> FALSE, error |-> "none"]

\* The writes reading the room when they run instead of the captured values.
WriteArgs_Live(c, rooms) ==
    [playerId |-> rooms[c.auctionId].currentPlayerId,
     teamId |-> rooms[c.auctionId].leadingTeamId,
     amount |-> rooms[c.auctionId].currentBid]

\* The identifiers and values the writes of commit c carry; the live
\* registry is passed so the operator can be compared with one that reads it.
WriteArgs(c, rooms) == c.args

\* Player.findByIdAndUpdate(currentPlayerId, {isSold: true, soldTo, soldPrice})
PlayerSold(db, w) ==
    [db EXCEPT ![w.playerId] =
        [@ EXCEPT !.isSold = TRUE, !.soldTo = w.teamId, !.soldPrice = w.amount]]

\* Player.findByIdAndUpdate(currentPlayerId, {isSold: false, isUnsold: true})
PlayerUnsold(db, w) ==
    [db EXCEPT ![w.playerId] = [@ EXCEPT !.isSold = FALSE, !.isUnsold = TRUE]]

\* Team.findByIdAndUpdate(leadingTeamId, {$inc: {spent}, $push: {players}})
TeamCredited(db, w) ==
    [db EXCEPT ![w.teamId] =
        [@ EXCEPT !.spent = @ + w.amount, !.players = Append(@, w.playerId)]]

\* Every write of the commit has resolved successfully.
AllWritesOk(c) ==
    c.playerWrite = "ok" /\ c.teamWrite \in {"ok", "none"}

\* The awaited promise settles with this write: it is the first rejection,
\* or the fulfilment that completes the set.
AwaitRejects(old, new) ==
    /\ "failed" \notin {old.playerWrite, old.teamWrite}
    /\ "failed" \in {new.playerWrite, new.teamWrite}

\* sell_player wraps its await in try/catch; unsell_player does not.
ErrorAfter(old, new) ==
    IF AwaitRejects(old, new)
    THEN (IF new.kind = "sell" THEN "caught" ELSE "uncaught")
    ELSE old.error

\* data_update emitted as soon as the player write is in.
EmitsDataUpdate_AfterPlayerWrite(old, new) == new.playerWrite = "ok"

\* data_update is emitted by the statement after the await.
EmitsDataUpdate(old, new) == AllWritesOk(new)

\* ---------------------------------------------------------------- broadcasts
\* The broadcast carrying a snapshot without the undo history.
StateToRoom_NoHistory(auctionId, state) ==
    [event |-> "auction_state", to |-> auctionId,
     payload |-> [state EXCEPT !.bidHistory = <<>>]]

\* io.to(auctionId).emit('auction_state', state)
StateToRoom(auctionId, state) ==
    [event |-> "auction_state", to |-> auctionId, payload |-> state]

\* socket.emit('auction_state', state)
StateToSocket(socket, state) ==
    [event |-> "auction_state", to |-> socket, payload |-> state]

\* The sockets a message reaches: the socket itself, or the members of the
\* room it is sent to.
Recipients(m, members) ==
    IF m.to \in Sockets THEN {m.to}
    ELSE {s \in Sockets : m.to \in members[s]}

\* io.to(auctionId).emit('data_update')
DataUpdate(auctionId) ==
    [event |-> "data_update", to |-> auctionId]

\* ---------------------------------------------------------------- bookkeeping of the last step
NoCommit == 0

Step(op, auctionId, socket, playerId, teamId, amount, accepted, pre, commit) ==
    [op |-> op, auctionId |-> auctionId, socket |-> socket,
     playerId |-> playerId, teamId |-> teamId, amount |-> amount,
     accepted |-> accepted,
     follows |-> IF last.auctionId = auctionId /\ last.accepted
                 THEN last.op ELSE "none",
     pre |-> pre, commit |-> commit]

\* What the room has seen since its last start_player: "none" (no round, or
\* something other than place_bid happened), "fresh" (only rejected bids),
\* "bid" (only place_bid calls, at least one accepted).
RoundAfter(op, auctionId, accepted) ==
    [round EXCEPT ![auctionId] =
        IF op = "start_player" THEN "fresh"
        ELSE IF op = "place_bid"
             THEN (IF accepted /\ @ # "none" THEN "bid" ELSE @)
        ELSE IF op = "join_auction" THEN @
        ELSE "none"]

Max(x, y) == IF x >= y THEN x ELSE y

\* What is remembered of a room's current round:
\*   bidSinceStart  a place_bid was accepted since the last start_player
\*                  (or since creation when there was none);
\*   bidSinceRound  the same, with reset_round also starting a round;
\*   mix            "bt" while only place_bid and toggle_pause were applied
\*                  since start_player, "btu" once undo_bid was applied too,
\*                  "none" without a round or after any other action;
\*   base           the base price of that start_player;
\*   heldBefore     the largest currentBid of the round before the present
\*                  one was set (-1 when there was none);
\*   sold           a sell_player was accepted since the last start_player.
NoTrack ==
    [bidSinceStart |-> FALSE, bidSinceRound |-> FALSE, mix |-> "none",
     base |-> 0, heldBefore |-> -1, sold |-> FALSE]

EndMix(t) == [t EXCEPT !.mix = "none", !.base = 0, !.heldBefore = -1]

TrackAfter(op, auctionId, accepted, state, amount) ==
    LET t == track[auctionId]
        held == IF t.mix = "none" THEN -1 ELSE Max(t.heldBefore, state.currentBid)
    IN [track EXCEPT ![auctionId] =
        IF op = "start_player"
        THEN [NoTrack EXCEPT !.mix = "bt", !.base = amount]
        ELSE IF ~accepted \/ op \in {"join_auction", "toggle_pause"} THEN t
        ELSE IF op = "place_bid"
             THEN [t EXCEPT !.bidSinceStart = TRUE, !.bidSinceRound = TRUE,
                            !.heldBefore = held]
        ELSE IF op = "undo_bid"
             THEN [t EXCEPT !.mix = IF @ = "none" THEN "none" ELSE "btu",
                            !.heldBefore = held]
        ELSE IF op = "reset_round"
             THEN [EndMix(t) EXCEPT !.bidSinceRound = FALSE]
        ELSE IF op = "sell_player"
             THEN [EndMix(t) EXCEPT !.sold = TRUE]
        ELSE EndMix(t)]

\* Handlers queued behind the writes in flight.
Runnable_Serialized(auctionId, cs) ==
    \A i \in 1..Len(cs) :
        cs[i].playerWrite # "pending" /\ cs[i].teamWrite # "pending"

\* A handler runs when its event arrives, whatever writes are in flight:
\* an await suspends only the handler invocation that issued it.
Runnable(auctionId, cs) == TRUE

\* ---------------------------------------------------------------- initial state
Init ==
    /\ auctionRooms = << >>
    /\ joined = [s \in Sockets |-> {}]
    /\ commits = <<>>
    /\ playersDB = [p \in PlayerIds |->
                       [isSold |-> FALSE, isUnsold |-> FALSE,
                        soldTo |-> Null, soldPrice |-> 0]]
    /\ teamsDB = [t \in TeamIds |-> [spent |-> 0, players |-> <<>>]]
    /\ emitted = {}
    /\ last = [op |-> "init", auctionId |-> Null, socket |-> Null,
               playerId |-> Null, teamId |-> Null, amount |-> 0,
               accepted |-> FALSE, follows |-> "none",
               pre |-> Baseline, commit |-> NoCommit]
    /\ round = [a \in AuctionIds |-> "none"]
    /\ nActions = 0
    /\ process = "up"
    /\ track = [a \in AuctionIds |-> NoTrack]

Tick ==
    /\ process = "up"
    /\ nActions < MaxActions
    /\ nActions' = nActions + 1
    /\ process' = process

\* ---------------------------------------------------------------- socket handlers
join_auction(socket, auctionId) ==
    LET rooms == getRoomState(auctionRooms, auctionId)
        state == rooms[auctionId]
    IN /\ Tick
       /\ Runnable(auctionId, commits)
       /\ joined' = [joined EXCEPT ![socket] = @ \cup {auctionId}]
       /\ auctionRooms' = rooms
       /\ emitted' = {StateToSocket(socket, state)}
       /\ last' = Step("join_auction", auctionId, socket, Null, Null, 0, TRUE, state, NoCommit)
       /\ round' = RoundAfter("join_auction", auctionId, TRUE)
       /\ track' = TrackAfter("join_auction", auctionId, TRUE, state, 0)
       /\ UNCHANGED <<commits, playersDB, teamsDB>>

start_player(auctionId, playerId, basePrice) ==
    LET rooms == getRoomState(auctionRooms, auctionId)
        state == rooms[auctionId]
        new == StartPlayerState(state, playerId, basePrice)
    IN /\ Tick
       /\ Runnable(auctionId, commits)
       /\ auctionRooms' = SetRoom(rooms, auctionId, new)
       /\ emitted' = {StateToRoom(auctionId, new)}
       /\ last' = Step("start_player", auctionId, Null, playerId, Null, basePrice, TRUE, state, NoCommit)
       /\ round' = RoundAfter("start_player", auctionId, TRUE)
       /\ track' = TrackAfter("start_player", auctionId, TRUE, state, basePrice)
       /\ UNCHANGED <<joined, commits, playersDB, teamsDB>>

place_bid(auctionId, teamId, amount) ==
    LET rooms == getRoomState(auctionRooms, auctionId)
        state == rooms[auctionId]
        ok == BidAccepted(state, amount)
        new == PlaceBidState(state, teamId, amount)
    IN /\ Tick
       /\ Runnable(auctionId, commits)
       /\ IF ok
          THEN /\ auctionRooms' = SetRoom(rooms, auctionId, new)
               /\ emitted' = {StateToRoom(auctionId, new)}
          ELSE /\ auctionRooms' = rooms
               /\ emitted' = {}
       /\ last' = Step("place_bid", auctionId, Null, Null, teamId, amount, ok, state, NoCommit)
       /\ round' = RoundAfter("place_bid", auctionId, ok)
       /\ track' = TrackAfter("place_bid", auctionId, ok, state, amount)
       /\ UNCHANGED <<joined, commits, playersDB, teamsDB>>

undo_bid(auctionId) ==
    LET rooms == getRoomState(auctionRooms, auctionId)
        state == rooms[auctionId]
        ok == UndoAccepted(state)
    IN /\ Tick
       /\ Runnable(auctionId, commits)
       /\ IF ok
          THEN /\ auctionRooms' = SetRoom(rooms, auctionId, UndoBidState(state))
               /\ emitted' = {StateToRoom(auctionId, UndoBidState(state))}
          ELSE /\ auctionRooms' = rooms
               /\ emitted' = {}
       /\ last' = Step("undo_bid", auctionId, Null, Null, Null, 0, ok, state, NoCommit)
       /\ round' = RoundAfter("undo_bid", auctionId, ok)
       /\ track' = TrackAfter("undo_bid", auctionId, ok, state, 0)
       /\ UNCHANGED <<joined, commits, playersDB, teamsDB>>

toggle_pause(auctionId) ==
    LET rooms == getRoomState(auctionRooms, auctionId)
        state == rooms[auctionId]
        new == TogglePauseState(state)
    IN /\ Tick
       /\ Runnable(auctionId, commits)
       /\ auctionRooms' = SetRoom(rooms, auctionId, new)
       /\ emitted' = {StateToRoom(auctionId, new)}
       /\ last' = Step("toggle_pause", auctionId, Null, Null, Null, 0, TRUE, state, NoCommit)
       /\ round' = RoundAfter("toggle_pause", auctionId, TRUE)
       /\ track' = TrackAfter("toggle_pause", auctionId, TRUE, state, 0)
       /\ UNCHANGED <<joined, commits, playersDB, teamsDB>>

reset_round(auctionId) ==
    LET rooms == getRoomState(auctionRooms, auctionId)
        state == rooms[auctionId]
        new == ResetRoundState(state)
    IN /\ Tick
       /\ Runnable(auctionId, commits)
       /\ auctionRooms' = SetRoom(rooms, auctionId, new)
       /\ emitted' = {StateToRoom(auctionId, new)}
       /\ last' = Step("reset_round", auctionId, Null, Null, Null, 0, TRUE, state, NoCommit)
       /\ round' = RoundAfter("reset_round", auctionId, TRUE)
       /\ track' = TrackAfter("reset_round", auctionId, TRUE, state, 0)
       /\ UNCHANGED <<joined, commits, playersDB, teamsDB>>

sell_player(auctionId) ==
    LET rooms == getRoomState(auctionRooms, auctionId)
        state == rooms[auctionId]
        ok == SellAccepted(state)
        new == SellState(state)
    IN /\ Tick
       /\ Runnable(auctionId, commits)
       /\ ok => Len(commits) < MaxCommits
       /\ IF ok
          THEN /\ auctionRooms' = SetRoom(rooms, auctionId, new)
               /\ emitted' = {StateToRoom(auctionId, new)}
               /\ commits' = Append(commits, NewCommit(auctionId, "sell", SellArgs(state), state))
          ELSE /\ auctionRooms' = rooms
               /\ emitted' = {}
               /\ commits' = commits
       /\ last' = Step("sell_player", auctionId, Null, Null, Null, 0, ok, state,
                       IF ok THEN Len(commits) + 1 ELSE NoCommit)
       /\ round' = RoundAfter("sell_player", auctionId, ok)
       /\ track' = TrackAfter("sell_player", auctionId, ok, state, 0)
       /\ UNCHANGED <<joined, playersDB, teamsDB>>

unsell_player(auctionId) ==
    LET rooms == getRoomState(auctionRooms, auctionId)
        state == rooms[auctionId]
        ok == UnsellAccepted(state)
        new == UnsellState(state)
    IN /\ Tick
       /\ Runnable(auctionId, commits)
       /\ ok => Len(commits) < MaxCommits
       /\ IF ok
          THEN /\ auctionRooms' = SetRoom(rooms, auctionId, new)
               /\ emitted' = {StateToRoom(auctionId, new)}
               /\ commits' = Append(commits, NewCommit(auctionId, "unsell", UnsellArgs(new), new))
          ELSE /\ auctionRooms' = rooms
               /\ emitted' = {}
               /\ commits' = commits
       /\ last' = Step("unsell_player", auctionId, Null, Null, Null, 0, ok, state,
                       IF ok THEN Len(commits) + 1 ELSE NoCommit)
       /\ round' = RoundAfter("unsell_player", auctionId, ok)
       /\ track' = TrackAfter("unsell_player", auctionId, ok, state, 0)
       /\ UNCHANGED <<joined, playersDB, teamsDB>>

\* ---------------------------------------------------------------- write completions
\* The registry after a write settles: neither the statement after the
\* await nor the catch block assigns to the room.
RoomsAfterSettle(rooms, old, new) == rooms

\* The handler's continuation after a write of commit i settles.
Settle(i, new, op) ==
    LET old == commits[i]
        done == [new EXCEPT !.dataUpdate = EmitsDataUpdate(old, new),
                            !.error = ErrorAfter(old, new)]
    IN /\ process = "up"
       /\ commits' = [commits EXCEPT ![i] = done]
       /\ auctionRooms' = RoomsAfterSettle(auctionRooms, old, done)
       /\ emitted' = IF done.dataUpdate THEN {DataUpdate(old.auctionId)} ELSE {}
       /\ last' = [op |-> op, auctionId |-> old.auctionId, socket |-> Null,
                   playerId |-> Null, teamId |-> Null, amount |-> 0,
                   accepted |-> FALSE, follows |-> "none",
                   pre |-> Baseline, commit |-> i]
       /\ UNCHANGED <<joined, round, nActions, process, track>>

PlayerWriteOk(i) ==
    LET c == commits[i]
        w == WriteArgs(c, auctionRooms)
    IN /\ c.playerWrite = "pending"
       /\ playersDB' = IF c.kind = "sell" THEN PlayerSold(playersDB, w)
                                          ELSE PlayerUnsold(playersDB, w)
       /\ UNCHANGED teamsDB
       /\ Settle(i, [c EXCEPT !.playerWrite = "ok"], "player_write_ok")

PlayerWriteFails(i) ==
    LET c == commits[i]
    IN /\ c.playerWrite = "pending"
       /\ UNCHANGED <<playersDB, teamsDB>>
       /\ Settle(i, [c EXCEPT !.playerWrite = "failed"], "player_write_failed")

TeamWriteOk(i) ==
    LET c == commits[i]
        w == WriteArgs(c, auctionRooms)
    IN /\ c.teamWrite = "pending"
       /\ teamsDB' = TeamCredited(teamsDB, w)
       /\ UNCHANGED playersDB
       /\ Settle(i, [c EXCEPT !.teamWrite = "ok"], "team_write_ok")

TeamWriteFails(i) ==
    LET c == commits[i]
    IN /\ c.teamWrite = "pending"
       /\ UNCHANGED <<playersDB, teamsDB>>
       /\ Settle(i, [c EXCEPT !.teamWrite = "failed"], "team_write_failed")

\* unsell_player awaits its write outside any try/catch, so a rejection
\* leaves the async handler as an unhandled rejection.  The runtime either
\* only warns (the process goes on, no step here) or terminates the process,
\* and with it the in-memory registry and every connection.
UnhandledRejectionExit ==
    /\ process = "up"
    /\ last.op = "player_write_failed"
    /\ commits[last.commit].error = "uncaught"
    /\ process' = "down"
    /\ auctionRooms' = << >>
    /\ joined' = [s \in Sockets |-> {}]
    /\ emitted' = {}
    /\ last' = [op |-> "process_exit", auctionId |-> last.auctionId,
                socket |-> Null, playerId |-> Null, teamId |-> Null,
                amount |-> 0, accepted |-> FALSE, follows |-> "none",
                pre |-> Baseline, commit |-> NoCommit]
    /\ UNCHANGED <<commits, playersDB, teamsDB, round, nActions, track>>

\* The handlers, for the auction ids, player ids and team ids given.
HandlersOn(ids, players, teams) ==
    \/ \E s \in Sockets, a \in ids : join_auction(s, a)
    \/ \E a \in ids, p \in players, b \in BasePrices : start_player(a, p, b)
    \/ \E a \in ids, t \in teams, x \in Amounts : place_bid(a, t, x)
    \/ \E a \in ids : undo_bid(a)
    \/ \E a \in ids : toggle_pause(a)
    \/ \E a \in ids : reset_round(a)
    \/ \E a \in ids : sell_player(a)
    \/ \E a \in ids : unsell_player(a)

\* The handlers, for the auction ids in ids.
Handlers(ids) == HandlersOn(ids, PlayerIds, TeamIds)

\* The completions of the writes in flight.
Completions ==
    \/ \E i \in 1..Len(commits) : PlayerWriteOk(i)
    \/ \E i \in 1..Len(commits) : PlayerWriteFails(i)
    \/ \E i \in 1..Len(commits) : TeamWriteOk(i)
    \/ \E i \in 1..Len(commits) : TeamWriteFails(i)

\* One auction receiving every action.
Next == Handlers({"a1"}) \/ Completions \/ UnhandledRejectionExit

Spec == Init /\ [][Next]_vars

\* Every auction id receiving every action, for one player and one team.
NextRooms ==
    HandlersOn(AuctionIds, {"p1"}, {"t1"}) \/ Completions \/ UnhandledRejectionExit

SpecRooms == Init /\ [][NextRooms]_vars

\* ================================================================ claims
Room(a) == auctionRooms[a]

\* The step just taken was the handler of a client action.
ClientStep == nActions' # nActions

\* The step just taken was the completion of a write.
SettleStep == nActions' = nActions /\ last'.commit # NoCommit

\* ---------------------------------------------------------------- C1
\* C1: place_bid on a room whose status is not ACTIVE is ignored: the room
\* state is what it was before the call and nothing is broadcast.
C1_BidIgnoredUnlessActive ==
    (last.op = "place_bid" /\ last.pre.status # "ACTIVE")
        => (Room(last.auctionId) = last.pre /\ emitted = {})

\* ---------------------------------------------------------------- C2
\* C2: on an ACTIVE room place_bid(teamId, amount) is accepted exactly when
\* (no leader and amount >= currentBid) or (a leader and amount > currentBid);
\* accepted, it pushes the previous (currentBid, leadingTeamId) and sets the
\* new bid and leader and broadcasts; rejected, nothing changes and nothing
\* is broadcast.
C2_BidAcceptance ==
    (last.op = "place_bid" /\ last.pre.status = "ACTIVE") =>
        LET s == last.pre
            now == Room(last.auctionId)
            should == \/ (s.leadingTeamId = Null /\ last.amount >= s.currentBid)
                      \/ (s.leadingTeamId # Null /\ last.amount > s.currentBid)
        IN IF should
           THEN /\ now.bidHistory = s.bidHistory \o
                        <<[bid |-> s.currentBid, leader |-> s.leadingTeamId]>>
                /\ now.currentBid = last.amount
                /\ now.leadingTeamId = last.teamId
                /\ now.currentPlayerId = s.currentPlayerId
                /\ now.status = s.status
                /\ emitted = {[event |-> "auction_state", to |-> last.auctionId,
                               payload |-> now]}
           ELSE now = s /\ emitted = {}

\* An opening bid equal to the base price was accepted on an ACTIVE room.
C2_Witness ==
    /\ last.op = "place_bid"
    /\ last.pre.status = "ACTIVE"
    /\ last.pre.leadingTeamId = Null
    /\ last.amount = last.pre.currentBid
    /\ Room(last.auctionId).leadingTeamId = last.teamId

\* ---------------------------------------------------------------- C3
\* C3: while a room has seen only place_bid calls since its start_player,
\* a place_bid never lowers currentBid, and an accepted bid that follows an
\* accepted bid of the same round raises it strictly.
C3_BidsMonotone ==
    [][\A a \in AuctionIds :
        (ClientStep /\ last'.op = "place_bid" /\ last'.auctionId = a
            /\ round[a] # "none") =>
            /\ auctionRooms'[a].currentBid >= auctionRooms[a].currentBid
            /\ (round[a] = "bid" /\ auctionRooms'[a] # auctionRooms[a])
                    => auctionRooms'[a].currentBid > auctionRooms[a].currentBid]_vars

\* A second bid was accepted in a round made of place_bid calls only.
C3_Witness ==
    /\ last.op = "place_bid"
    /\ last.accepted
    /\ round[last.auctionId] = "bid"
    /\ Len(Room(last.auctionId).bidHistory) = 2

\* ---------------------------------------------------------------- C4
\* C4: undo_bid right after an accepted place_bid on the same room restores
\* currentBid, leadingTeamId and bidHistory to their values before that bid;
\* undo_bid on an empty bidHistory changes nothing and broadcasts nothing.
C4_UndoInvertsBid ==
    [][(ClientStep /\ last'.op = "undo_bid") =>
        LET a == last'.auctionId
        IN /\ (last.op = "place_bid" /\ last.accepted /\ last.auctionId = a) =>
                  /\ auctionRooms'[a].currentBid = last.pre.currentBid
                  /\ auctionRooms'[a].leadingTeamId = last.pre.leadingTeamId
                  /\ auctionRooms'[a].bidHistory = last.pre.bidHistory
           /\ (last'.pre.bidHistory = <<>>) =>
                  (auctionRooms'[a] = last'.pre /\ emitted' = {})]_vars

\* An undo directly followed an accepted bid that had outbid a leader.
C4_Witness ==
    /\ last.op = "undo_bid"
    /\ last.accepted
    /\ last.follows = "place_bid"
    /\ Room(last.auctionId).leadingTeamId # Null
    /\ Room(last.auctionId).bidHistory # <<>>

\* ---------------------------------------------------------------- C5
\* C5: right after reset_round the room is the IDLE baseline with an empty
\* bidHistory, and an undo_bid that directly follows reset_round changes
\* nothing and broadcasts nothing.
C5_ResetClearsHistory ==
    /\ last.op = "reset_round" => Room(last.auctionId) = Baseline
    /\ (last.op = "undo_bid" /\ last.follows = "reset_round")
            => (Room(last.auctionId) = last.pre /\ emitted = {})

\* ---------------------------------------------------------------- C6
\* C6: toggle_pause turns ACTIVE into PAUSED and PAUSED into ACTIVE, leaves
\* every other status alone and touches no other field; two toggle_pause in
\* a row on a room give back the room state before the first.
C6_TogglePauseInvolution ==
    [][(ClientStep /\ last'.op = "toggle_pause") =>
        LET a == last'.auctionId
            s == last'.pre
        IN /\ auctionRooms'[a] =
                [s EXCEPT !.status = IF s.status = "ACTIVE" THEN "PAUSED"
                                     ELSE IF s.status = "PAUSED" THEN "ACTIVE"
                                     ELSE s.status]
           /\ (last.op = "toggle_pause" /\ last.auctionId = a)
                  => auctionRooms'[a] = last.pre]_vars

\* ---------------------------------------------------------------- C7
\* C7: sell_player on a room with no leader or no current player changes no
\* field of the room, broadcasts nothing, issues no write and touches no
\* durable record; a data_update is only ever emitted for an issued commit.
C7_SellNeedsLeaderAndPlayer ==
    [][/\ (ClientStep /\ last'.op = "sell_player"
            /\ (last'.pre.leadingTeamId = Null \/ last'.pre.currentPlayerId = Null)) =>
              /\ auctionRooms'[last'.auctionId] = last'.pre
              /\ emitted' = {}
              /\ commits' = commits
              /\ playersDB' = playersDB
              /\ teamsDB' = teamsDB
       /\ \A m \in emitted' : m.event = "data_update" =>
              (last'.commit \in 1..Len(commits') /\ ~ClientStep)]_vars

\* sell_player was called on a started round with no bid yet, and was refused.
C7_Witness ==
    /\ last.op = "sell_player"
    /\ ~last.accepted
    /\ last.pre.currentPlayerId # Null
    /\ last.pre.leadingTeamId = Null
    /\ last.pre.status = "ACTIVE"

\* ---------------------------------------------------------------- C8
\* C8: start_player(playerId, basePrice) always leaves the room at
\* currentBid = basePrice, no leader, currentPlayerId = playerId, ACTIVE,
\* empty bidHistory, and broadcasts exactly that state once.
C8_StartPlayerResets ==
    last.op = "start_player" =>
        /\ Room(last.auctionId) =
              [currentBid |-> last.amount, leadingTeamId |-> Null,
               currentPlayerId |-> last.playerId, status |-> "ACTIVE",
               bidHistory |-> <<>>]
        /\ emitted = {[event |-> "auction_state", to |-> last.auctionId,
                       payload |-> Room(last.auctionId)]}

\* start_player was applied to a paused room that had a leader and history.
C8_Witness ==
    /\ last.op = "start_player"
    /\ last.pre.status = "PAUSED"
    /\ last.pre.bidHistory # <<>>
    /\ last.pre.leadingTeamId # Null

\* ---------------------------------------------------------------- C9
\* C9: an accepted sell_player/unsell_player broadcasts the SOLD/UNSOLD state
\* while all its writes are still pending; a data_update is emitted only by
\* the completion that makes every write of its commit successful, and a
\* commit with a pending or failed write has had no data_update.
C9_TwoPhaseNotify ==
    /\ \A i \in 1..Len(commits) :
          commits[i].dataUpdate =>
              /\ commits[i].playerWrite = "ok"
              /\ commits[i].kind = "sell" => commits[i].teamWrite = "ok"
    /\ (last.op \in {"sell_player", "unsell_player"} /\ last.accepted) =>
          /\ Room(last.auctionId).status =
                (IF last.op = "sell_player" THEN "SOLD" ELSE "UNSOLD")
          /\ emitted = {[event |-> "auction_state", to |-> last.auctionId,
                         payload |-> Room(last.auctionId)]}
          /\ commits[last.commit].playerWrite = "pending"
          /\ commits[last.commit].teamWrite \in {"pending", "none"}
          /\ ~commits[last.commit].dataUpdate
    /\ \A m \in emitted : m.event = "data_update" =>
          /\ last.op \in {"player_write_ok", "team_write_ok"}
          /\ m.to = commits[last.commit].auctionId
          /\ commits[last.commit].playerWrite = "ok"
          /\ commits[last.commit].teamWrite \in {"ok", "none"}

\* The second write of a sale succeeded and its data_update went out.
C9_Witness ==
    /\ last.op \in {"player_write_ok", "team_write_ok"}
    /\ commits[last.commit].kind = "sell"
    /\ emitted = {[event |-> "data_update", to |-> last.auctionId]}

\* ---------------------------------------------------------------- C10
\* C10: the writes of a sale carry the player, leader and bid that stood when
\* sell_player was handled, whatever happened to the room since; and the
\* completion or failure of a write changes no room.
C10_SaleCommitsStandingValues ==
    [][/\ (ClientStep /\ last'.op = "sell_player" /\ last'.accepted) =>
              commits'[last'.commit].standing =
                  [playerId |-> last'.pre.currentPlayerId,
                   teamId |-> last'.pre.leadingTeamId,
                   amount |-> last'.pre.currentBid]
       /\ SettleStep =>
              LET c == commits[last'.commit]
                  st == c.standing
              IN /\ auctionRooms' = auctionRooms
                 /\ (c.kind = "sell" /\ last'.op = "player_write_ok") =>
                        playersDB' = [playersDB EXCEPT ![st.playerId] =
                            [@ EXCEPT !.isSold = TRUE, !.soldTo = st.teamId,
                                      !.soldPrice = st.amount]]
                 /\ (c.kind = "sell" /\ last'.op = "team_write_ok") =>
                        teamsDB' = [teamsDB EXCEPT ![st.teamId] =
                            [@ EXCEPT !.spent = @ + st.amount,
                                      !.players = Append(@, st.playerId)]]
                 /\ last'.op \in {"player_write_failed", "team_write_failed"} =>
                        (playersDB' = playersDB /\ teamsDB' = teamsDB)]_vars

\* A sale's player write completed after a new round, with another player
\* and another price, had started in the same room.
C10_Witness ==
    /\ last.op = "player_write_ok"
    /\ commits[last.commit].kind = "sell"
    /\ Room(last.auctionId).currentPlayerId # commits[last.commit].standing.playerId
    /\ Room(last.auctionId).currentBid # commits[last.commit].standing.amount
    /\ Room(last.auctionId).status = "ACTIVE"

\* ---------------------------------------------------------------- C11
\* Some write is still pending.
WritePending ==
    \E i \in 1..Len(commits) :
        commits[i].playerWrite = "pending" \/ commits[i].teamWrite = "pending"

\* A write issued before the last step is still pending.
OlderWritePending ==
    \E i \in 1..Len(commits) :
        /\ i # last.commit
        /\ commits[i].playerWrite = "pending" \/ commits[i].teamWrite = "pending"

\* What a handler makes of the room it finds, from the room and the payload
\* alone.
ResultOf(l) ==
    LET s == l.pre
    IN CASE l.op = "start_player" ->
              [currentBid |-> l.amount, leadingTeamId |-> Null,
               currentPlayerId |-> l.playerId, status |-> "ACTIVE",
               bidHistory |-> <<>>]
         [] l.op = "place_bid" ->
              IF (s.leadingTeamId = Null /\ l.amount >= s.currentBid)
                    \/ (s.leadingTeamId # Null /\ l.amount > s.currentBid)
              THEN [s EXCEPT !.bidHistory = Append(@, [bid |-> s.currentBid,
                                                       leader |-> s.leadingTeamId]),
                             !.currentBid = l.amount, !.leadingTeamId = l.teamId]
              ELSE s
         [] l.op = "undo_bid" ->
              IF s.bidHistory = <<>> THEN s
              ELSE [s EXCEPT !.bidHistory = SubSeq(@, 1, Len(@) - 1),
                             !.currentBid = s.bidHistory[Len(s.bidHistory)].bid,
                             !.leadingTeamId = s.bidHistory[Len(s.bidHistory)].leader]
         [] l.op = "toggle_pause" ->
              [s EXCEPT !.status = IF @ = "PAUSED" THEN "ACTIVE" ELSE "PAUSED"]
         [] l.op = "sell_player" ->
              IF s.currentPlayerId # Null /\ s.leadingTeamId # Null
              THEN [s EXCEPT !.status = "SOLD", !.bidHistory = <<>>] ELSE s
         [] l.op = "unsell_player" ->
              IF s.currentPlayerId # Null THEN [s EXCEPT !.status = "UNSOLD"] ELSE s
         [] l.op = "reset_round" ->
              [s EXCEPT !.currentBid = 0, !.leadingTeamId = Null,
                        !.currentPlayerId = Null, !.status = "IDLE"]
         [] OTHER -> s

RoomOps ==
    {"start_player", "place_bid", "undo_bid", "toggle_pause", "sell_player",
     "unsell_player", "reset_round"}

\* C11: while a write is pending, every handler can still run for every
\* auction id (the one the write belongs to and any other), and the handler
\* that ran with an older write pending left the room and the broadcast that
\* the room it found and its payload determine.
C11_PendingWriteBlocksNothing ==
    /\ (process = "up" /\ nActions < MaxActions /\ WritePending) =>
          \A a \in AuctionIds :
             /\ \A s \in Sockets : ENABLED join_auction(s, a)
             /\ \A p \in PlayerIds, b \in BasePrices : ENABLED start_player(a, p, b)
             /\ \A t \in TeamIds, x \in Amounts : ENABLED place_bid(a, t, x)
             /\ ENABLED undo_bid(a)
             /\ ENABLED toggle_pause(a)
             /\ ENABLED reset_round(a)
             /\ Len(commits) < MaxCommits =>
                    (ENABLED sell_player(a) /\ ENABLED unsell_player(a))
    /\ (OlderWritePending /\ last.op \in RoomOps) =>
          /\ Room(last.auctionId) = ResultOf(last)
          /\ emitted = IF last.accepted
                       THEN {[event |-> "auction_state", to |-> last.auctionId,
                              payload |-> ResultOf(last)]}
                       ELSE {}
    /\ (OlderWritePending /\ last.op = "join_auction") =>
          /\ Room(last.auctionId) = last.pre
          /\ emitted = {[event |-> "auction_state", to |-> last.socket,
                         payload |-> last.pre]}

\* A round was started in a2 while the sale of a1 had both writes pending.
C11_Witness ==
    /\ last.op = "start_player"
    /\ last.auctionId = "a2"
    /\ Len(commits) = 1
    /\ commits[1].auctionId = "a1"
    /\ commits[1].kind = "sell"
    /\ commits[1].playerWrite = "pending"
    /\ commits[1].teamWrite = "pending"
    /\ Room("a2").status = "ACTIVE"

\* ---------------------------------------------------------------- C12
\* C12: a failed write rolls nothing back: only a client action changes a
\* room, so after a failure every room keeps the state that was broadcast
\* until a later action changes it.
C12_FailureKeepsLiveState ==
    [][~ClientStep => auctionRooms' = auctionRooms]_vars

\* ---------------------------------------------------------------- C13
\* C13: every commit with a failed write had its failure caught in the
\* handler; the process is still up and no data_update went out for it.
C13_FailuresCaught ==
    \A i \in 1..Len(commits) :
        "failed" \in {commits[i].playerWrite, commits[i].teamWrite} =>
            /\ commits[i].error = "caught"
            /\ ~commits[i].dataUpdate
            /\ process = "up"

\* ---------------------------------------------------------------- C14
\* C14: a handler run for auction a leaves every other room as it was
\* (it neither changes nor creates it), sends nothing to another room, and
\* what it sends reaches only sockets that joined a.
C14_RoomIsolation ==
    [][ClientStep =>
        LET a == last'.auctionId
        IN \A b \in AuctionIds \ {a} :
              /\ (b \in DOMAIN auctionRooms') = (b \in DOMAIN auctionRooms)
              /\ b \in DOMAIN auctionRooms => auctionRooms'[b] = auctionRooms[b]
              /\ \A m \in emitted' :
                    /\ m.to # b
                    /\ \A s \in Recipients(m, joined') : a \in joined'[s]]_vars

\* A round was started in a1 while a2 had a round running and a viewer
\* that never joined a1.
C14_Witness ==
    /\ last.op = "start_player"
    /\ last.auctionId = "a1"
    /\ "a2" \in DOMAIN auctionRooms
    /\ Room("a2").status = "ACTIVE"
    /\ Room("a2") # Room("a1")
    /\ joined["s1"] = {"a2"}

\* ---------------------------------------------------------------- C15
\* C15: a room's status changes only along the state machine: to ACTIVE by
\* start_player or from PAUSED by toggle_pause, to PAUSED only from ACTIVE,
\* to SOLD or UNSOLD only from ACTIVE, to IDLE only by reset_round.
C15_StatusMachine ==
    [][ClientStep =>
        LET a == last'.auctionId
            from == last'.pre.status
            to == auctionRooms'[a].status
            op == last'.op
        IN to # from =>
              CASE to = "ACTIVE" -> op = "start_player"
                                      \/ (op = "toggle_pause" /\ from = "PAUSED")
                [] to = "PAUSED" -> op = "toggle_pause" /\ from = "ACTIVE"
                [] to = "SOLD" -> op = "sell_player" /\ from = "ACTIVE"
                [] to = "UNSOLD" -> op = "unsell_player" /\ from = "ACTIVE"
                [] to = "IDLE" -> op = "reset_round"]_vars

\* ---------------------------------------------------------------- C16
\* C16: join_auction changes no existing room, creates the room at the
\* baseline when it did not exist, and sends exactly one auction_state, the
\* room's state, to the joining socket; while the process runs no step
\* removes a room from the registry.
C16_JoinOnlyReads ==
    [][/\ (ClientStep /\ last'.op = "join_auction") =>
              LET a == last'.auctionId
              IN /\ \A b \in DOMAIN auctionRooms : auctionRooms'[b] = auctionRooms[b]
                 /\ DOMAIN auctionRooms' = DOMAIN auctionRooms \cup {a}
                 /\ a \notin DOMAIN auctionRooms => auctionRooms'[a] = Baseline
                 /\ emitted' = {[event |-> "auction_state", to |-> last'.socket,
                                 payload |-> auctionRooms'[a]]}
       /\ process' = "up" => DOMAIN auctionRooms \subseteq DOMAIN auctionRooms']_vars

\* A socket joined a2, which is at the baseline, while a1 had a sold player.
C16_Witness ==
    /\ last.op = "join_auction"
    /\ last.auctionId = "a2"
    /\ Room("a2") = Baseline
    /\ "a1" \in DOMAIN auctionRooms
    /\ Room("a1").status = "SOLD"
    /\ emitted = {[event |-> "auction_state", to |-> "s1", payload |-> Baseline]}

\* ---------------------------------------------------------------- C17
\* The handler's guard refused the action.
Refused(l) ==
    LET s == l.pre
    IN \/ l.op = "place_bid" /\ ~(IF s.leadingTeamId = Null
                                  THEN l.amount >= s.currentBid
                                  ELSE l.amount > s.currentBid)
       \/ l.op = "undo_bid" /\ s.bidHistory = <<>>
       \/ l.op = "sell_player" /\ (s.currentPlayerId = Null \/ s.leadingTeamId = Null)
       \/ l.op = "unsell_player" /\ s.currentPlayerId = Null

\* C17: the step of an applied action carries exactly one auction_state to
\* its room, whose snapshot is the room right after the action; the step of
\* a refused action carries none and leaves the room as it was; and an
\* auction_state to a room is only ever sent by the step that applied an
\* action to that room, so broadcasts follow the order of application.
C17_OneBroadcastPerAction ==
    /\ last.op \in RoomOps =>
          IF Refused(last)
          THEN emitted = {} /\ Room(last.auctionId) = last.pre
          ELSE emitted = {[event |-> "auction_state", to |-> last.auctionId,
                           payload |-> Room(last.auctionId)]}
    /\ \A m \in emitted :
          (m.event = "auction_state" /\ m.to \in AuctionIds) =>
              /\ last.op \in RoomOps
              /\ m.to = last.auctionId
              /\ m.payload = Room(m.to)

\* An undo was applied and its broadcast carries the restored leader and
\* the shortened history.
C17_Witness ==
    /\ last.op = "undo_bid"
    /\ last.pre.bidHistory # <<>>
    /\ Room(last.auctionId).bidHistory # <<>>
    /\ Room(last.auctionId) # last.pre
    /\ emitted = {[event |-> "auction_state", to |-> last.auctionId,
                   payload |-> Room(last.auctionId)]}

BaseOrNewHigh(a) ==
    \/ Room(a).currentBid = track[a].base
    \/ Room(a).currentBid > track[a].heldBefore

\* C19 as stated: in an ACTIVE room whose round has seen only place_bid,
\* undo_bid and toggle_pause, currentBid is the base price or strictly above
\* every value it held before in the round.
C19_BaseOrNewHighWithUndo ==
    \A a \in DOMAIN auctionRooms :
        (Room(a).status = "ACTIVE" /\ track[a].mix \in {"bt", "btu"})
            => BaseOrNewHigh(a)

\* C19 as amended: the same for a round that has seen only place_bid and
\* toggle_pause.
C19_BaseOrNewHigh ==
    \A a \in DOMAIN auctionRooms :
        (Room(a).status = "ACTIVE" /\ track[a].mix = "bt") => BaseOrNewHigh(a)

\* A second bid stands above the first, which stood above the base price,
\* in a round that was paused and resumed in between or not.
C19_Witness ==
    /\ last.op = "place_bid"
    /\ last.accepted
    /\ Room(last.auctionId).status = "ACTIVE"
    /\ track[last.auctionId].mix = "bt"
    /\ track[last.auctionId].heldBefore > track[last.auctionId].base
    /\ Room(last.auctionId).currentBid > track[last.auctionId].heldBefore

\* ---------------------------------------------------------------- C20
\* C20: once a sell_player was accepted in a room, a further sell_player
\* before the next start_player issues no write.
C20_OneSalePerRound ==
    [][(ClientStep /\ last'.op = "sell_player" /\ track[last'.auctionId].sold)
            => commits' = commits]_vars

\* ---------------------------------------------------------------- C21
\* No write is pending and none has failed.
Quiescent ==
    \A i \in 1..Len(commits) : AllWritesOk(commits[i])

\* Player p is in the roster.
InRoster(p, roster) == \E k \in 1..Len(roster) : roster[k] = p

RECURSIVE RosterValue(_)
\* The sold prices of a roster's players, added up.
RosterValue(roster) ==
    IF roster = <<>> THEN 0
    ELSE playersDB[Head(roster)].soldPrice + RosterValue(Tail(roster))

\* C21: when no write is pending or failed, a player is in a team's roster
\* exactly when its record is sold to that team and not unsold, a team's
\* spend is the sold prices of its roster, and no record is both sold and
\* unsold.
C21_DurableRecordsConsistent ==
    Quiescent =>
        /\ \A p \in PlayerIds, t \in TeamIds :
              InRoster(p, teamsDB[t].players) <=>
                  (playersDB[p].isSold /\ playersDB[p].soldTo = t
                      /\ ~playersDB[p].isUnsold)
        /\ \A t \in TeamIds : teamsDB[t].spent = RosterValue(teamsDB[t].players)
        /\ \A p \in PlayerIds : ~(playersDB[p].isSold /\ playersDB[p].isUnsold)

\* ---------------------------------------------------------------- C22
\* C22: with non-null team and player ids in every payload, a SOLD room has
\* a current player and a leader, and an UNSOLD room has a current player,
\* whatever is applied after the sale.
C22_SoldHasPlayerAndLeader ==
    \A a \in DOMAIN auctionRooms :
        /\ Room(a).status = "SOLD" =>
              (Room(a).currentPlayerId # Null /\ Room(a).leadingTeamId # Null)
        /\ Room(a).status = "UNSOLD" => Room(a).currentPlayerId # Null

\* A bid was accepted on a room after its sale, and the room is still SOLD.
C22_Witness ==
    /\ last.op = "place_bid"
    /\ last.accepted
    /\ last.pre.status = "SOLD"
    /\ Room(last.auctionId).status = "SOLD"
    /\ track[last.auctionId].sold

====
